---- MODULE Spec2Model ----
(***************************************************************************)
(* amatl-action: run() of src/main.ts and the installer, file discovery,   *)
(* bounded dispatcher and render job of src/amatl.ts.                      *)
(*                                                                         *)
(* The program is single-threaded JavaScript.  A step of the model is one  *)
(* synchronous segment of one async function (from one await to the next). *)
(* Completions of external work (io.mkdirP, exec.exec) are macrotasks: the *)
(* event loop delivers one only when no continuation of run() or of the    *)
(* dispatcher is ready (Quiescent), which is how promise continuations     *)
(* (microtasks) are ordered before I/O completions in Node.                *)
(***************************************************************************)
EXTENDS Naturals, Integers, Sequences, FiniteSets, TLC

VARIABLES
  options,        \* AmatlOptions read by run()
  env,            \* process environment: platform, arch, cpus, release query, glob
  cache,          \* tool cache: versions stored under the tool name 'amatl'
  downloads,      \* number of tc.downloadTool calls
  installCalls,   \* number of installAmatl calls
  amatlPath,      \* value returned by installAmatl (<<>> before)
  markdownFiles,  \* value returned by findMarkdownFiles
  run,            \* run(): position, caught error, core.setOutput / core.setFailed
  disp,           \* processMarkdownFiles: position and locals
  job,            \* one processMarkdownFile promise per input file
  execCalls,      \* execCalls[i][f]: exec.exec calls for file i, format f
  started,        \* started[i]: processMarkdownFile calls for file i
  waits,          \* number of completed joint wait-and-merge steps
  origin,         \* origin[k]: input index and joint wait behind outputFiles[k]
  overtaken,      \* some job was fulfilled while an earlier one of its batch ran
  installLog,     \* one entry per installAmatl call: selector and outcome
  findCalls,      \* number of findMarkdownFiles calls
  lateExec        \* exec.exec was called after processMarkdownFiles threw

vars == <<options, env, cache, downloads, installCalls, amatlPath,
          markdownFiles, run, disp, job, execCalls, started, waits, origin,
          overtaken, installLog, findCalls, lateExec>>

----------------------------------------------------------------------------
(* Bounds *)

MaxCpus == 3
MaxPatterns == 2
MaxInstalls == 3

----------------------------------------------------------------------------
(* Generic helpers *)

Range(s) == {s[k] : k \in 1..Len(s)}

RECURSIVE Concat(_)
Concat(ss) == IF ss = <<>> THEN <<>> ELSE Head(ss) \o Concat(Tail(ss))

SeqsUpTo(S, n) == UNION {[1..k -> S] : k \in 1..n}

Digit(d) ==
  CASE d = 0 -> "0" [] d = 1 -> "1" [] d = 2 -> "2" [] d = 3 -> "3"
    [] d = 4 -> "4" [] d = 5 -> "5" [] d = 6 -> "6" [] d = 7 -> "7"
    [] d = 8 -> "8" [] d = 9 -> "9"

\* Number.prototype.toString() for a non-negative integer
RECURSIVE NumToString(_)
NumToString(n) == IF n < 10 THEN Digit(n) ELSE NumToString(n \div 10) \o Digit(n % 10)

\* JSON.stringify of an array of plain path strings
RECURSIVE JoinQuoted(_)
JoinQuoted(s) ==
  IF s = <<>> THEN ""
  ELSE IF Len(s) = 1 THEN "\"" \o s[1] \o "\""
  ELSE "\"" \o s[1] \o "\"," \o JoinQuoted(Tail(s))

JSONStringify(s) == "[" \o JoinQuoted(s) \o "]"

----------------------------------------------------------------------------
(* The workspace seen by glob and by the path functions *)

Workspace ==
  { [path |-> "a.md",        dir |-> ".",   base |-> "a", ext |-> ".md"],
    [path |-> "a.markdown",  dir |-> ".",   base |-> "a", ext |-> ".markdown"],
    [path |-> "sub/b.md",    dir |-> "sub", base |-> "b", ext |-> ".md"] }

FileOf(p) == CHOOSE f \in Workspace : f.path = p

\* path.basename(file, path.extname(file))
BaseName(p) == FileOf(p).base

\* path.dirname(path.relative(process.cwd(), file)), cwd being the workspace
DirName(p) == FileOf(p).dir

\* path.relative(workspace, m) for a match m, cwd being the workspace
RelPath(p) == FileOf(p).path

\* path.join(a, b): joins with '/' and normalises a '.' segment away
PathJoin(a, b) == IF b = "." THEN a ELSE a \o "/" \o b

\* glob(pattern, {ignore: [...], nodir: true}) in the workspace
Glob(pattern) ==
  CASE pattern = "*.md"      -> <<"a.md">>
    [] pattern = "**/*.md"   -> <<"a.md", "sub/b.md">>
    [] pattern = "*.m*"      -> <<"a.markdown", "a.md">>
    [] OTHER                 -> <<>>

PatternNames == {"*.md", "**/*.md", "docs/*.md"}

----------------------------------------------------------------------------
(* Inputs of run(): the action inputs and the process environment *)

\* ''.split('\n') is [''], so the empty input is the one-line list <<"">>
PatternInputs == {<<"">>} \cup SeqsUpTo(PatternNames, MaxPatterns)

IgnoreInputs == {<<"">>, <<"sub/b.md">>, <<"a.md", "sub/b.md">>}

\* options.format, already cut at its commas (String.prototype.split(','))
FormatInputs ==
  { <<"html">>, <<"HTML", " pdf">>, <<"html", "pdf", "markdown">>,
    <<"both">>, <<"pdf", "">> }

OutputDirInputs == {"out", ""}

LayoutInputs == {<<>>, <<"amatl://document.html">>}

ConfigInputs == {<<>>, <<"file://amatl.yml">>}

VarsInputs == {<<>>, <<"file://variables.json">>}

AdditionalArgsInputs ==
  {<<>>, <<"--debug --pdf-scale 0.8">>, <<"--html-layout amatl://website.html">>}

VersionInputs == {"latest", "v0.25.1"}

Platforms == {"linux", "darwin", "win32", "sunos"}

Archs == {"x64", "arm64", "ia32"}

\* outcome of the releases/latest query: fetch throws, or the JSON body
\* carries a tag_name, or it carries none (an API error body)
ReleaseQueries ==
  { [throws |-> TRUE,  tag |-> <<>>],
    [throws |-> FALSE, tag |-> <<"v0.26.0">>],
    [throws |-> FALSE, tag |-> <<>>] }

\* String.prototype.toLowerCase followed by String.prototype.trim
LowerTrim(tok) ==
  CASE tok = "HTML" -> "html"
    [] tok = " pdf" -> "pdf"
    [] OTHER        -> tok

Formats(format) == [k \in 1..Len(format) |-> LowerTrim(format[k])]

SupportedFormats == {"html", "pdf", "markdown"}

----------------------------------------------------------------------------
(* validateInputs *)

\* faulty variant: the format list is not validated
ValidateInputsNoFormats(o) ==
  IF o.patterns = <<"">> THEN <<"Patterns is required">>
  ELSE IF o.outputDir = "" THEN <<"Output directory is required">>
  ELSE <<>>

ValidateInputs(o) ==
  IF o.patterns = <<"">> THEN <<"Patterns is required">>
  ELSE IF o.outputDir = "" THEN <<"Output directory is required">>
  ELSE IF \E k \in 1..Len(o.format) : Formats(o.format)[k] \notin SupportedFormats
       THEN LET k == CHOOSE k \in 1..Len(o.format) :
                       /\ Formats(o.format)[k] \notin SupportedFormats
                       /\ \A h \in 1..(k - 1) : Formats(o.format)[h] \in SupportedFormats
            IN <<"Invalid format: " \o Formats(o.format)[k]
                   \o ". Supported formats: html, pdf, markdown, both">>
  ELSE <<>>

----------------------------------------------------------------------------
(* installAmatl and getLatestAmatlVersion *)

FallbackVersion == "v0.25.1"

ToolDir(version) == "/opt/hostedtoolcache/amatl/" \o version

OsName(platform) ==
  CASE platform = "linux"  -> <<"linux">>
    [] platform = "darwin" -> <<"darwin">>
    [] platform = "win32"  -> <<"windows">>
    [] OTHER               -> <<>>

ArchName(arch) ==
  CASE arch = "x64"   -> <<"amd64">>
    [] arch = "arm64" -> <<"arm64">>
    [] OTHER          -> <<>>

\* the resolved tag, or <<>> for undefined
GetLatestAmatlVersion(q) == IF q.throws THEN <<FallbackVersion>> ELSE q.tag

\* result of one installAmatl(version) call in environment e with cache c:
\* the returned path or the thrown error, the cache and the downloads made
InstallAmatl(version, e, c) ==
  IF version \in c
  THEN [path |-> <<PathJoin(ToolDir(version), "amatl")>>, err |-> <<>>,
        cache |-> c, downloads |-> 0]
  ELSE IF OsName(e.platform) = <<>>
  THEN [path |-> <<>>, err |-> <<"Unsupported platform: " \o e.platform>>,
        cache |-> c, downloads |-> 0]
  ELSE IF ArchName(e.arch) = <<>>
  THEN [path |-> <<>>, err |-> <<"Unsupported architecture: " \o e.arch>>,
        cache |-> c, downloads |-> 0]
  ELSE LET actual == IF version = "latest" THEN GetLatestAmatlVersion(e.release)
                     ELSE <<version>>
       IN IF actual = <<>>
          THEN [path |-> <<>>,
                err |-> <<"Cannot read properties of undefined (reading 'replace')">>,
                cache |-> c, downloads |-> 0]
          ELSE [path |-> <<PathJoin(ToolDir(actual[1]),
                                    IF e.platform = "win32" THEN "amatl.exe"
                                    ELSE "amatl")>>,
                err |-> <<>>,
                cache |-> c \cup {actual[1]}, downloads |-> 1]

\* what one installAmatl(version) call was given and what it did
LogEntry(version, r) ==
  [version |-> version, path |-> r.path, err |-> r.err, downloads |-> r.downloads]

----------------------------------------------------------------------------
(* findMarkdownFiles *)

\* faulty variant: the ignore set is looked up by base name
FilterIgnoredByBaseName(matches, ignored) ==
  SelectSeq(matches, LAMBDA m : BaseName(m) \notin ignored)

\* matches.filter(m => !ignoredFiles.has(path.relative(workspace, m)))
FilterIgnored(matches, ignored) ==
  SelectSeq(matches, LAMBDA m : RelPath(m) \notin ignored)

FindMarkdownFiles(patterns, ignore) ==
  Concat([k \in 1..Len(patterns) |->
            FilterIgnored(Glob(patterns[k]), Range(ignore))])

----------------------------------------------------------------------------
(* processMarkdownFile: one render job *)

Extension(format) == IF format = "markdown" THEN "md" ELSE format

OutputSubDir(file, o) == PathJoin(o.outputDir, DirName(file))

OutputFile(file, format, o) ==
  PathJoin(OutputSubDir(file, o), BaseName(file) \o "." \o Extension(format))

\* stringArgv(options.additionalArgs)
StringArgv(s) ==
  CASE s = "--debug --pdf-scale 0.8" -> <<"--debug", "--pdf-scale", "0.8">>
    [] s = "--html-layout amatl://website.html"
         -> <<"--html-layout", "amatl://website.html">>
    [] OTHER                         -> <<s>>

\* faulty variant: the layout flag is added whatever the format
BuildArgsLayoutAlways(file, format, o) ==
  <<"render">>
    \o (IF o.config # <<>> THEN <<"-c", o.config[1]>> ELSE <<>>)
    \o <<format, "-o", OutputFile(file, format, o)>>
    \o (IF o.layout # <<>> THEN <<"--html-layout", o.layout[1]>> ELSE <<>>)
    \o (IF o.vars # <<>> THEN <<"--vars", o.vars[1]>> ELSE <<>>)
    \o (IF o.additionalArgs # <<>> THEN StringArgv(o.additionalArgs[1]) ELSE <<>>)
    \o <<file>>

BuildArgs(file, format, o) ==
  <<"render">>
    \o (IF o.config # <<>> THEN <<"-c", o.config[1]>> ELSE <<>>)
    \o <<format, "-o", OutputFile(file, format, o)>>
    \o (IF (format = "html" \/ format = "pdf") /\ o.layout # <<>>
        THEN <<"--html-layout", o.layout[1]>> ELSE <<>>)
    \o (IF o.vars # <<>> THEN <<"--vars", o.vars[1]>> ELSE <<>>)
    \o (IF o.additionalArgs # <<>> THEN StringArgv(o.additionalArgs[1]) ELSE <<>>)
    \o <<file>>

IdleJob(file) ==
  [file |-> file, pc |-> "idle", fmt |-> 0, args |-> <<>>, outputFiles |-> <<>>,
   value |-> <<>>, error |-> <<>>]

\* the call processMarkdownFile(amatlPath, file, options) up to its first
\* await, io.mkdirP(outputSubDir)
JobCall(j) == [j EXCEPT !.pc = "mkdir"]

\* the loop head for format number f: build the arguments, call exec.exec
JobInvoke(j, f, o) ==
  [j EXCEPT !.pc = "exec", !.fmt = f,
            !.args = BuildArgs(j.file, Formats(o.format)[f], o)]

\* exec.exec resolved: record the output file, go on with the next format or
\* return { filesProcessed: 1, outputFiles }
JobExecResolved(j, o) ==
  LET out == Append(j.outputFiles, OutputFile(j.file, Formats(o.format)[j.fmt], o))
  IN IF j.fmt < Len(o.format)
     THEN JobInvoke([j EXCEPT !.outputFiles = out], j.fmt + 1, o)
     ELSE [j EXCEPT !.pc = "fulfilled", !.outputFiles = out,
                    !.value = <<[filesProcessed |-> 1, outputFiles |-> out]>>]

\* faulty variant: the failure of one format is logged and the loop goes on
JobExecRejectedContinue(j, o) ==
  IF j.fmt < Len(o.format)
  THEN JobInvoke(j, j.fmt + 1, o)
  ELSE [j EXCEPT !.pc = "rejected", !.error = <<"failed: " \o j.file>>]

\* faulty variant: a failed job returns what it produced so far instead of throwing
JobExecRejectedPartial(j, o) ==
  [j EXCEPT !.pc = "rejected", !.error = <<"failed: " \o j.file>>,
            !.value = <<[filesProcessed |-> 1, outputFiles |-> j.outputFiles]>>]

\* exec.exec rejected: core.error, then the error is thrown again
JobExecRejected(j, o) ==
  [j EXCEPT !.pc = "rejected",
            !.error = <<"The process '" \o j.args[1] \o "' failed: "
                          \o j.file \o " to " \o Formats(o.format)[j.fmt]>>]

----------------------------------------------------------------------------
(* processMarkdownFiles: the dispatcher *)

\* faulty variant: every cpu is used, none is left to the runner
BatchSizeAllCpus(cpus) == IF cpus < 1 THEN 1 ELSE cpus

\* os.cpus().length - 1, raised to 1
BatchSize(cpus) == IF cpus - 1 < 1 THEN 1 ELSE cpus - 1

\* batch.length < batchSize
CanAdmit(batch, batchSize) == Len(batch) < batchSize

\* faulty variant: Promise.any-like, fulfilled as soon as one member is
PromiseAny(batch, jobs) ==
  IF \E k \in 1..Len(batch) : jobs[batch[k]].pc = "rejected"
  THEN [state |-> "rejected", values |-> <<>>,
        reason |-> {jobs[batch[k]].error : k \in
                      {h \in 1..Len(batch) : jobs[batch[h]].pc = "rejected"}}]
  ELSE IF \E k \in 1..Len(batch) : jobs[batch[k]].pc = "fulfilled"
  THEN LET done == SelectSeq(batch, LAMBDA b : jobs[b].pc = "fulfilled")
       IN [state |-> "fulfilled", reason |-> {},
           values |-> [k \in 1..Len(done) |-> jobs[done[k]].value[1]]]
  ELSE [state |-> "pending", values |-> <<>>, reason |-> {}]

\* faulty variant: Promise.allSettled-like, waits for every member and reports the
\* rejected ones as empty results
PromiseAllSettled(batch, jobs) ==
  IF \A k \in 1..Len(batch) : jobs[batch[k]].pc \in {"fulfilled", "rejected"}
  THEN [state |-> "fulfilled", reason |-> {},
        values |-> [k \in 1..Len(batch) |->
                      IF jobs[batch[k]].pc = "fulfilled"
                      THEN jobs[batch[k]].value[1]
                      ELSE [filesProcessed |-> 0,
                            outputFiles |-> jobs[batch[k]].outputFiles]]]
  ELSE [state |-> "pending", values |-> <<>>, reason |-> {}]

\* Promise.all(batch): rejected with the reason of a rejected member as soon
\* as there is one, fulfilled with the values in array order once every
\* member is fulfilled, pending otherwise
PromiseAll(batch, jobs) ==
  IF \E k \in 1..Len(batch) : jobs[batch[k]].pc = "rejected"
  THEN [state |-> "rejected", values |-> <<>>,
        reason |-> {jobs[batch[k]].error : k \in
                      {h \in 1..Len(batch) : jobs[batch[h]].pc = "rejected"}}]
  ELSE IF \A k \in 1..Len(batch) : jobs[batch[k]].pc = "fulfilled"
  THEN [state |-> "fulfilled", reason |-> {},
        values |-> [k \in 1..Len(batch) |-> jobs[batch[k]].value[1]]]
  ELSE [state |-> "pending", values |-> <<>>, reason |-> {}]

\* faulty variant: the results of a window are merged last to first
RECURSIVE MergeResultsLastFirst(_, _, _, _)
MergeResultsLastFirst(acc, batch, results, w) ==
  IF results = <<>> THEN acc
  ELSE LET n == Len(results)
       IN MergeResultsLastFirst(
            [filesProcessed |-> acc.filesProcessed + results[n].filesProcessed,
             outputFiles |-> acc.outputFiles \o results[n].outputFiles,
             origin |-> acc.origin \o [k \in 1..Len(results[n].outputFiles) |->
                                         [index |-> batch[n], window |-> w]]],
            SubSeq(batch, 1, n - 1), SubSeq(results, 1, n - 1), w)

\* for (const result of results) { outputFiles.push(...); filesProcessed += ... }
\* acc.origin records, for each path pushed, the input index of its job and
\* the number w of the joint wait that delivered it
RECURSIVE MergeResults(_, _, _, _)
MergeResults(acc, batch, results, w) ==
  IF results = <<>> THEN acc
  ELSE MergeResults(
         [filesProcessed |-> acc.filesProcessed + Head(results).filesProcessed,
          outputFiles |-> acc.outputFiles \o Head(results).outputFiles,
          origin |-> acc.origin \o [k \in 1..Len(Head(results).outputFiles) |->
                                      [index |-> Head(batch), window |-> w]]],
         Tail(batch), Tail(results), w)

----------------------------------------------------------------------------
(* run() of src/main.ts *)

\* faulty variant: the empty run reports an empty string for the list
NoFilesOutputsBlank == [filesProcessed |-> <<"0">>, outputFiles |-> <<"">>]

\* core.setOutput for the empty file list
NoFilesOutputs == [filesProcessed |-> <<"0">>, outputFiles |-> <<"[]">>]

\* core.setOutput for the result of processMarkdownFiles
ResultOutputs(result) ==
  [filesProcessed |-> <<NumToString(result.filesProcessed)>>,
   outputFiles |-> <<JSONStringify(result.outputFiles)>>]

NoOutputs == [filesProcessed |-> <<>>, outputFiles |-> <<>>]

IdleDisp ==
  [pc |-> "idle", idx |-> 0, batch |-> <<>>, batchSize |-> 0,
   filesProcessed |-> 0, outputFiles |-> <<>>, error |-> <<>>]

RunOptions ==
  [patterns : PatternInputs, ignore : IgnoreInputs, outputDir : OutputDirInputs,
   format : FormatInputs, layout : {<<"amatl://document.html">>}, vars : {<<>>},
   version : VersionInputs, config : {<<>>}, additionalArgs : {<<>>}]

RunEnvs ==
  [platform : {"linux", "sunos"}, arch : {"x64"}, cpus : 1..MaxCpus,
   release : {[throws |-> FALSE, tag |-> <<"v0.26.0">>]}]

Init ==
  /\ options \in RunOptions
  /\ env \in RunEnvs
  /\ cache = {FallbackVersion}
  /\ downloads = 0
  /\ installCalls = 0
  /\ amatlPath = <<>>
  /\ markdownFiles = <<>>
  /\ run = [pc |-> "validate", error |-> <<>>, outputs |-> NoOutputs,
            failed |-> <<>>]
  /\ disp = IdleDisp
  /\ job = <<>>
  /\ execCalls = <<>>
  /\ started = <<>>
  /\ waits = 0
  /\ origin = <<>>
  /\ overtaken = FALSE
  /\ installLog = <<>>
  /\ findCalls = 0
  /\ lateExec = FALSE

N == Len(markdownFiles)

M == Len(options.format)

\* validateInputs(options)
RunValidate ==
  /\ run.pc = "validate"
  /\ run' = IF ValidateInputs(options) # <<>>
            THEN [run EXCEPT !.pc = "catch", !.error = ValidateInputs(options)]
            ELSE [run EXCEPT !.pc = "install"]
  /\ UNCHANGED <<options, env, cache, downloads, installCalls, amatlPath,
                 markdownFiles, disp, job, execCalls, started, waits, origin, overtaken, installLog, findCalls, lateExec>>

\* const amatLPath = await installAmatl(options.version)
RunInstall ==
  /\ run.pc = "install"
  /\ LET r == InstallAmatl(options.version, env, cache)
     IN /\ installCalls' = installCalls + 1
        /\ cache' = r.cache
        /\ downloads' = downloads + r.downloads
        /\ amatlPath' = r.path
        /\ installLog' = Append(installLog, LogEntry(options.version, r))
        /\ run' = IF r.err # <<>>
                  THEN [run EXCEPT !.pc = "catch", !.error = r.err]
                  ELSE [run EXCEPT !.pc = "find"]
  /\ UNCHANGED <<options, env, markdownFiles, disp, job, execCalls, started,
                 waits, origin, overtaken, findCalls, lateExec>>

\* const markdownFiles = await findMarkdownFiles(...), the empty-list return,
\* and the call of processMarkdownFiles up to await io.mkdirP(options.outputDir)
RunFind ==
  /\ run.pc = "find"
  /\ LET files == FindMarkdownFiles(options.patterns, options.ignore)
     IN /\ markdownFiles' = files
        /\ findCalls' = findCalls + 1
        /\ IF Len(files) = 0
           THEN /\ run' = [run EXCEPT !.pc = "done", !.outputs = NoFilesOutputs]
                /\ UNCHANGED <<disp, job, execCalls, started>>
           ELSE /\ run' = [run EXCEPT !.pc = "process"]
                /\ disp' = [IdleDisp EXCEPT !.pc = "mkdir"]
                /\ job' = [i \in 1..Len(files) |-> IdleJob(files[i])]
                /\ execCalls' = [i \in 1..Len(files) |-> [f \in 1..M |-> 0]]
                /\ started' = [i \in 1..Len(files) |-> 0]
  /\ UNCHANGED <<options, env, cache, downloads, installCalls, amatlPath,
                 waits, origin, overtaken, installLog, lateExec>>

\* io.mkdirP(options.outputDir) resolved; batch = [], batchSize computed
DispMkdirDone ==
  /\ run.pc = "process"
  /\ disp.pc = "mkdir"
  /\ disp' = [disp EXCEPT !.pc = "loop", !.idx = 1,
                          !.batchSize = BatchSize(env.cpus)]
  /\ UNCHANGED <<options, env, cache, downloads, installCalls, amatlPath,
                 markdownFiles, run, job, execCalls, started, waits, origin, overtaken, installLog, findCalls, lateExec>>

\* loop body, then-branch: batch.push(processMarkdownFile(...)); continue
DispAdmit ==
  /\ disp.pc = "loop"
  /\ disp.idx <= N
  /\ CanAdmit(disp.batch, disp.batchSize)
  /\ job' = [job EXCEPT ![disp.idx] = JobCall(@)]
  /\ started' = [started EXCEPT ![disp.idx] = @ + 1]
  /\ disp' = [disp EXCEPT !.batch = Append(@, disp.idx), !.idx = @ + 1]
  /\ UNCHANGED <<options, env, cache, downloads, installCalls, amatlPath,
                 markdownFiles, run, execCalls, waits, origin, overtaken, installLog, findCalls, lateExec>>

\* loop body, else-branch: reach await Promise.all(batch)
DispFull ==
  /\ disp.pc = "loop"
  /\ disp.idx <= N
  /\ ~CanAdmit(disp.batch, disp.batchSize)
  /\ disp' = [disp EXCEPT !.pc = "awaitLoop"]
  /\ UNCHANGED <<options, env, cache, downloads, installCalls, amatlPath,
                 markdownFiles, run, job, execCalls, started, waits, origin, overtaken, installLog, findCalls, lateExec>>

\* else-branch after the await: merge, batch.length = 0, and the for-of loop
\* moves on to the next file
DispMerge ==
  /\ disp.pc = "awaitLoop"
  /\ PromiseAll(disp.batch, job).state = "fulfilled"
  /\ LET acc == MergeResults([filesProcessed |-> disp.filesProcessed,
                              outputFiles |-> disp.outputFiles,
                              origin |-> origin],
                             disp.batch, PromiseAll(disp.batch, job).values,
                             waits + 1)
     IN /\ disp' = [disp EXCEPT !.pc = "loop", !.idx = @ + 1, !.batch = <<>>,
                                !.filesProcessed = acc.filesProcessed,
                                !.outputFiles = acc.outputFiles]
        /\ origin' = acc.origin
  /\ waits' = waits + 1
  /\ UNCHANGED <<options, env, cache, downloads, installCalls, amatlPath,
                 markdownFiles, run, job, execCalls, started, overtaken, installLog, findCalls, lateExec>>

\* the loop is over: await Promise.all(batch) if batch.length > 0, else return
DispLoopEnd ==
  /\ disp.pc = "loop"
  /\ disp.idx > N
  /\ disp' = [disp EXCEPT !.pc = IF Len(disp.batch) > 0 THEN "awaitFinal"
                                 ELSE "returned"]
  /\ UNCHANGED <<options, env, cache, downloads, installCalls, amatlPath,
                 markdownFiles, run, job, execCalls, started, waits, origin, overtaken, installLog, findCalls, lateExec>>

\* the final joint wait resolved: merge and return
DispFinalMerge ==
  /\ disp.pc = "awaitFinal"
  /\ PromiseAll(disp.batch, job).state = "fulfilled"
  /\ LET acc == MergeResults([filesProcessed |-> disp.filesProcessed,
                              outputFiles |-> disp.outputFiles,
                              origin |-> origin],
                             disp.batch, PromiseAll(disp.batch, job).values,
                             waits + 1)
     IN /\ disp' = [disp EXCEPT !.pc = "returned",
                                !.filesProcessed = acc.filesProcessed,
                                !.outputFiles = acc.outputFiles]
        /\ origin' = acc.origin
  /\ waits' = waits + 1
  /\ UNCHANGED <<options, env, cache, downloads, installCalls, amatlPath,
                 markdownFiles, run, job, execCalls, started, overtaken, installLog, findCalls, lateExec>>

\* faulty variant: the rejection is caught and the loop goes on
DispRejectContinue ==
  /\ disp.pc \in {"awaitLoop", "awaitFinal"}
  /\ PromiseAll(disp.batch, job).state = "rejected"
  /\ disp' = [disp EXCEPT !.pc = IF disp.pc = "awaitLoop" THEN "loop" ELSE "returned",
                          !.idx = IF disp.pc = "awaitLoop" THEN @ + 1 ELSE @,
                          !.batch = <<>>]
  /\ UNCHANGED <<options, env, cache, downloads, installCalls, amatlPath,
                 markdownFiles, run, job, execCalls, started, waits, origin,
                 overtaken, installLog, findCalls, lateExec>>

\* either joint wait rejected: processMarkdownFiles throws the reason
DispReject ==
  /\ disp.pc \in {"awaitLoop", "awaitFinal"}
  /\ PromiseAll(disp.batch, job).state = "rejected"
  /\ \E e \in PromiseAll(disp.batch, job).reason :
       disp' = [disp EXCEPT !.pc = "threw", !.error = e]
  /\ UNCHANGED <<options, env, cache, downloads, installCalls, amatlPath,
                 markdownFiles, run, job, execCalls, started, waits, origin, overtaken, installLog, findCalls, lateExec>>

\* processMarkdownFiles returned: core.setOutput twice, run() returns
RunSetOutputs ==
  /\ run.pc = "process"
  /\ disp.pc = "returned"
  /\ run' = [run EXCEPT !.pc = "done",
               !.outputs = ResultOutputs([filesProcessed |-> disp.filesProcessed,
                                          outputFiles |-> disp.outputFiles])]
  /\ UNCHANGED <<options, env, cache, downloads, installCalls, amatlPath,
                 markdownFiles, disp, job, execCalls, started, waits, origin, overtaken, installLog, findCalls, lateExec>>

\* faulty variant: the catch block swallows the error
RunCatchSwallow ==
  /\ \/ run.pc = "catch"
     \/ run.pc = "process" /\ disp.pc = "threw"
  /\ run' = [run EXCEPT !.pc = "done",
               !.error = IF run.pc = "catch" THEN run.error ELSE disp.error]
  /\ UNCHANGED <<options, env, cache, downloads, installCalls, amatlPath,
                 markdownFiles, disp, job, execCalls, started, waits, origin, overtaken, installLog, findCalls, lateExec>>

\* catch (error): every error thrown here is an Error, so
\* core.setFailed(error.message)
RunCatch ==
  /\ \/ run.pc = "catch"
     \/ run.pc = "process" /\ disp.pc = "threw"
  /\ run' = [run EXCEPT !.pc = "done",
               !.error = IF run.pc = "catch" THEN run.error ELSE disp.error,
               !.failed = IF run.pc = "catch" THEN run.error ELSE disp.error]
  /\ UNCHANGED <<options, env, cache, downloads, installCalls, amatlPath,
                 markdownFiles, disp, job, execCalls, started, waits, origin, overtaken, installLog, findCalls, lateExec>>

\* no continuation of run() or of the dispatcher is ready to run, so the
\* event loop may deliver the completion of an io.mkdirP or exec.exec call
Quiescent ==
  \/ run.pc = "done"
  \/ /\ run.pc = "process"
     /\ disp.pc \in {"awaitLoop", "awaitFinal"}
     /\ PromiseAll(disp.batch, job).state = "pending"

\* the job's state after a step, and the exec.exec call that step made
JobStep(i, next) ==
  /\ job' = [job EXCEPT ![i] = next]
  /\ execCalls' = IF next.pc = "exec"
                  THEN [execCalls EXCEPT ![i][next.fmt] = @ + 1]
                  ELSE execCalls
  /\ overtaken' = (\/ overtaken
                   \/ /\ next.pc = "fulfilled"
                      /\ \E h \in Range(disp.batch) :
                           h < i /\ job[h].pc \in {"mkdir", "exec"})
  /\ lateExec' = (lateExec \/ (next.pc = "exec" /\ disp.pc = "threw"))
  /\ UNCHANGED <<options, env, cache, downloads, installCalls, amatlPath,
                 markdownFiles, run, disp, started, waits, origin, installLog,
                 findCalls>>

\* await io.mkdirP(outputSubDir) resolved: first pass of the format loop
JobMkdirDone(i) ==
  /\ Quiescent
  /\ job[i].pc = "mkdir"
  /\ JobStep(i, JobInvoke(job[i], 1, options))

\* await exec.exec(amatlPath, args) resolved
JobExecOk(i) ==
  /\ Quiescent
  /\ job[i].pc = "exec"
  /\ JobStep(i, JobExecResolved(job[i], options))

\* await exec.exec(amatlPath, args) rejected
JobExecFail(i) ==
  /\ Quiescent
  /\ job[i].pc = "exec"
  /\ JobStep(i, JobExecRejected(job[i], options))

Next ==
  \/ RunValidate
  \/ RunInstall
  \/ RunFind
  \/ DispMkdirDone
  \/ DispAdmit
  \/ DispFull
  \/ DispMerge
  \/ DispLoopEnd
  \/ DispFinalMerge
  \/ DispReject
  \/ RunSetOutputs
  \/ RunCatch
  \/ \E i \in 1..Len(job) : JobMkdirDone(i)
  \/ \E i \in 1..Len(job) : JobExecOk(i)
  \/ \E i \in 1..Len(job) : JobExecFail(i)

Spec == Init /\ [][Next]_vars

----------------------------------------------------------------------------
(* run() over every combination of the rendering options *)

ArgsOptions ==
  [patterns : {<<"*.md", "**/*.md">>}, ignore : {<<"">>}, outputDir : {"out"},
   format : {<<"html">>, <<"HTML", " pdf">>, <<"html", "pdf", "markdown">>},
   layout : LayoutInputs, vars : VarsInputs, version : {FallbackVersion},
   config : ConfigInputs, additionalArgs : AdditionalArgsInputs]

InitArgs ==
  /\ options \in ArgsOptions
  /\ env = [platform |-> "linux", arch |-> "x64", cpus |-> 1,
            release |-> [throws |-> FALSE, tag |-> <<"v0.26.0">>]]
  /\ cache = {FallbackVersion}
  /\ downloads = 0
  /\ installCalls = 0
  /\ amatlPath = <<>>
  /\ markdownFiles = <<>>
  /\ run = [pc |-> "validate", error |-> <<>>, outputs |-> NoOutputs,
            failed |-> <<>>]
  /\ disp = IdleDisp
  /\ job = <<>>
  /\ execCalls = <<>>
  /\ started = <<>>
  /\ waits = 0
  /\ origin = <<>>
  /\ overtaken = FALSE
  /\ installLog = <<>>
  /\ findCalls = 0
  /\ lateExec = FALSE

SpecArgs == InitArgs /\ [][Next]_vars

----------------------------------------------------------------------------
(* installAmatl called again and again on one machine, the tool cache kept *)

InstallEnvs ==
  [platform : Platforms, arch : Archs, cpus : {1}, release : ReleaseQueries]

InitInstall ==
  /\ options = [patterns |-> <<"*.md">>, ignore |-> <<"">>, outputDir |-> "out",
                format |-> <<"html">>, layout |-> <<>>, vars |-> <<>>,
                version |-> "latest", config |-> <<>>, additionalArgs |-> <<>>]
  /\ env \in InstallEnvs
  /\ cache = {}
  /\ downloads = 0
  /\ installCalls = 0
  /\ amatlPath = <<>>
  /\ markdownFiles = <<>>
  /\ run = [pc |-> "validate", error |-> <<>>, outputs |-> NoOutputs,
            failed |-> <<>>]
  /\ disp = IdleDisp
  /\ job = <<>>
  /\ execCalls = <<>>
  /\ started = <<>>
  /\ waits = 0
  /\ origin = <<>>
  /\ overtaken = FALSE
  /\ installLog = <<>>
  /\ findCalls = 0
  /\ lateExec = FALSE

\* one call installAmatl(version), whoever makes it
InstallCall(version) ==
  /\ Len(installLog) < MaxInstalls
  /\ LET r == InstallAmatl(version, env, cache)
     IN /\ installCalls' = installCalls + 1
        /\ cache' = r.cache
        /\ downloads' = downloads + r.downloads
        /\ amatlPath' = r.path
        /\ installLog' = Append(installLog, LogEntry(version, r))
  /\ UNCHANGED <<options, env, markdownFiles, run, disp, job, execCalls,
                 started, waits, origin, overtaken, findCalls, lateExec>>

NextInstall == \E version \in VersionInputs : InstallCall(version)

SpecInstall == InitInstall /\ [][NextInstall]_vars

----------------------------------------------------------------------------
(* Properties *)

\* K = max(1, detected CPU count - 1), as the specification states it
WindowSize == IF env.cpus - 1 >= 1 THEN env.cpus - 1 ELSE 1

CeilDiv(a, b) == (a + b - 1) \div b

Jobs == 1..Len(job)

AnyRejected == \E i \in Jobs : job[i].pc = "rejected"

InFlight == {i \in Jobs : job[i].pc \in {"mkdir", "exec"}}

\* the output paths of file i for its first n formats, in format order
PathsOf(i, n) ==
  [k \in 1..n |-> OutputFile(markdownFiles[i], Formats(options.format)[k], options)]

\* C1: when no render invocation fails, processMarkdownFiles returns
\* filesProcessed = N for a list of N files and any window size K >= 1.
C1_ProcessedAllFiles ==
  (disp.pc = "returned" /\ ~AnyRejected) => disp.filesProcessed = N

\* C2: when no render invocation fails, every file of the input list has its
\* job started exactly once and the render executable is invoked exactly once
\* for each (file, format) pair.
C2_EveryFileStartedOnce ==
  (disp.pc = "returned" /\ ~AnyRejected) =>
    \A i \in Jobs : /\ started[i] = 1
                    /\ \A f \in 1..M : execCalls[i][f] = 1

\* C3: when no render invocation fails, processMarkdownFiles performs exactly
\* ceil(N/K) joint wait-and-merge steps.
C3_CeilWindows ==
  (disp.pc = "returned" /\ ~AnyRejected) => waits = CeilDiv(N, WindowSize)

\* C4: in every reachable state the number of jobs started and not yet
\* completed is at most K = max(1, cpus - 1), also in runs where a job fails.
C4_BoundedInFlight == Cardinality(InFlight) <= WindowSize

C4_Witness ==
  /\ WindowSize >= 2
  /\ N > WindowSize
  /\ Cardinality(InFlight) = WindowSize

\* C5: if a job of a window fails, none of that window's results is merged
\* into filesProcessed/outputFiles, processMarkdownFiles rejects with the
\* job's error, and no job is started for a file not yet admitted.
C5_FailedWindowNotMerged ==
  AnyRejected =>
    /\ disp.pc \in {"awaitLoop", "awaitFinal", "threw"}
    /\ \E i \in Range(disp.batch) : job[i].pc = "rejected"
    /\ \A k \in 1..Len(origin) : origin[k].index \notin Range(disp.batch)
    /\ disp.filesProcessed =
         Cardinality({i \in Jobs : job[i].pc = "fulfilled"
                                     /\ i \notin Range(disp.batch)})
    /\ Len(disp.outputFiles) = disp.filesProcessed * M
    /\ disp.pc = "threw" =>
         disp.error \in {job[i].error : i \in {h \in Range(disp.batch) :
                                                job[h].pc = "rejected"}}
    /\ \A i \in disp.idx..N : job[i].pc = "idle" /\ started[i] = 0

C5_Witness ==
  /\ disp.pc = "threw"
  /\ run.pc = "done"
  /\ disp.idx <= N
  /\ \E i \in Range(disp.batch) : job[i].pc = "fulfilled"

\* C6: within one job the formats are rendered strictly one after the other
\* in list order: format f+1 is invoked only after format f succeeded, and
\* after a failed invocation no later format of that job is invoked.
C6_SequentialFormats ==
  \A i \in Jobs :
    /\ \A f \in 1..M :
         execCalls[i][f] > 0 =>
           /\ f <= job[i].fmt
           /\ Len(job[i].outputFiles) >= f - 1
    /\ job[i].outputFiles = PathsOf(i, Len(job[i].outputFiles))
    /\ job[i].pc = "exec" => Len(job[i].outputFiles) = job[i].fmt - 1
    /\ job[i].pc = "rejected" =>
         \A g \in (job[i].fmt + 1)..M : execCalls[i][g] = 0

C6_Witness ==
  \E i \in Jobs : /\ M = 3
                  /\ job[i].pc = "rejected"
                  /\ job[i].fmt = 2
                  /\ execCalls[i] = <<1, 1, 0>>

\* C7 (as claimed): the outcome of a failed job carries the list of paths
\* produced up to and including the last successful format.
C7_FailedJobCarriesPaths ==
  \A i \in Jobs :
    job[i].pc = "rejected" =>
      /\ job[i].value # <<>>
      /\ job[i].value[1].outputFiles = PathsOf(i, job[i].fmt - 1)

\* C7 (amended): a failed job has no result, it rejects with the error of the
\* failed invocation; the paths produced before the failure are in its local
\* list only and are lost with it.  Only a job whose every format succeeded
\* yields a result: count 1 and one path per format, in format order.
C7_FailedJobYieldsNoResult ==
  \A i \in Jobs :
    /\ job[i].pc = "rejected" =>
         /\ job[i].value = <<>>
         /\ job[i].error # <<>>
         /\ job[i].outputFiles = PathsOf(i, job[i].fmt - 1)
    /\ job[i].pc = "fulfilled" =>
         /\ job[i].error = <<>>
         /\ job[i].value = <<[filesProcessed |-> 1, outputFiles |-> PathsOf(i, M)]>>

C7_Witness ==
  \E i \in Jobs : /\ M = 3
                  /\ job[i].pc = "rejected"
                  /\ job[i].fmt = 2
                  /\ job[i].outputFiles = PathsOf(i, 1)
                  /\ job[i].value = <<>>

\* C8: the merged outputFiles list is in admission order whatever the order
\* in which the jobs completed: the paths of file i precede those of a later
\* file j, and the results of one window precede those of the next.
C8_AdmissionOrder ==
  /\ Len(origin) = Len(disp.outputFiles)
  /\ \A p \in 1..Len(origin) :
       disp.outputFiles[p] \in Range(job[origin[p].index].outputFiles)
  /\ \A p, q \in 1..Len(origin) :
       p < q => /\ origin[p].index <= origin[q].index
                /\ origin[p].window <= origin[q].window

C8_Witness ==
  /\ overtaken
  /\ disp.pc = "returned"
  /\ \E p, q \in 1..Len(origin) :
       /\ p < q
       /\ origin[p].index < origin[q].index
       /\ origin[p].window = origin[q].window

\* C9: when a render invocation fails during run(), setFailed is called, the
\* files-processed and output-files outputs are never set, and no
\* (file, format) invocation is retried.
C9_FailureReported ==
  /\ AnyRejected =>
       /\ run.outputs = NoOutputs
       /\ run.pc = "done" => run.failed # <<>>
       /\ run.pc # "done" => ~Quiescent
  /\ \A i \in Jobs : \A f \in 1..M : execCalls[i][f] <= 1

C9_Witness ==
  /\ AnyRejected
  /\ run.pc = "done"
  /\ run.failed # <<>>
  /\ waits >= 1
  /\ disp.filesProcessed >= 1

\* C10: when discovery returns zero files, run() sets files-processed to "0"
\* and output-files to "[]", reports no failure, calls the installer at most
\* once and never invokes the render executable.
FoundNoFiles == run.pc = "done" /\ amatlPath # <<>> /\ markdownFiles = <<>>

C10_NoFilesRun ==
  /\ FoundNoFiles =>
       /\ run.outputs = [filesProcessed |-> <<"0">>, outputFiles |-> <<"[]">>]
       /\ run.failed = <<>>
       /\ job = <<>>
       /\ execCalls = <<>>
  /\ markdownFiles = <<>> => installCalls <= 1 /\ downloads <= 1

C10_Witness ==
  /\ FoundNoFiles
  /\ installCalls = 1
  /\ Glob(options.patterns[1]) # <<>>

\* C11: a configuration error (missing patterns, missing output directory, or
\* a format token outside {html, pdf, markdown}) makes run() fail before any
\* processing: installer, discovery and render executable are never invoked
\* and no output is set.
ConfigError ==
  \/ options.patterns = <<"">>
  \/ options.outputDir = ""
  \/ \E k \in 1..M : Formats(options.format)[k] \notin {"html", "pdf", "markdown"}

C11_ConfigErrorFailsFast ==
  ConfigError =>
    /\ run.pc \in {"validate", "catch", "done"}
    /\ installCalls = 0
    /\ downloads = 0
    /\ findCalls = 0
    /\ job = <<>>
    /\ execCalls = <<>>
    /\ run.outputs = NoOutputs
    /\ run.pc = "done" => run.failed # <<>>

C11_Witness ==
  /\ options.patterns # <<"">>
  /\ options.outputDir # ""
  /\ ConfigError
  /\ run.pc = "done"
  /\ run.failed # <<>>

\* C15: findMarkdownFiles never returns a file whose workspace-relative path
\* is in the ignore list, and returns every non-directory match of each
\* pattern that is not ignored, in pattern order.
Kept(k) ==
  {j \in 1..Len(Glob(options.patterns[k])) :
     Glob(options.patterns[k])[j] \notin Range(options.ignore)}

RECURSIVE Offset(_)
Offset(k) == IF k <= 1 THEN 0 ELSE Offset(k - 1) + Cardinality(Kept(k - 1))

C15_DiscoveryHonoursIgnore ==
  findCalls >= 1 =>
    /\ \A x \in 1..N : markdownFiles[x] \notin Range(options.ignore)
    /\ N = Offset(Len(options.patterns) + 1)
    /\ \A k \in 1..Len(options.patterns) : \A j \in Kept(k) :
         markdownFiles[Offset(k) + Cardinality({h \in Kept(k) : h <= j})]
           = Glob(options.patterns[k])[j]

C15_Witness ==
  /\ findCalls = 1
  /\ options.patterns = <<"**/*.md">>
  /\ options.ignore = <<"sub/b.md">>
  /\ markdownFiles = <<"a.md">>

\* C16: synchronous barrier: no job of a later window is started while a job
\* of the preceding window is in flight; the next window is admitted only
\* after every job of the current full window has completed.
C16_Barrier ==
  /\ InFlight \subseteq Range(disp.batch)
  /\ \A i \in Jobs :
       (started[i] > 0 /\ i \notin Range(disp.batch)) => job[i].pc = "fulfilled"

C16_Witness ==
  /\ WindowSize >= 2
  /\ waits >= 1
  /\ InFlight # {}
  /\ \E i \in Jobs : i \notin Range(disp.batch) /\ job[i].pc = "fulfilled"

\* C17: filesProcessed and outputFiles change only in a merge step taken when
\* every job of the current window has completed successfully, never while a
\* job is in flight, and never by a step of a job.
C17_MergeOnlyWhenSettled ==
  [][(\/ disp'.filesProcessed # disp.filesProcessed
      \/ disp'.outputFiles # disp.outputFiles)
       => /\ disp.pc \in {"awaitLoop", "awaitFinal"}
          /\ disp.batch # <<>>
          /\ \A i \in Range(disp.batch) : job[i].pc = "fulfilled"
          /\ InFlight = {}
          /\ job' = job
          /\ waits' = waits + 1]_vars

C17_Witness ==
  /\ WindowSize >= 2
  /\ waits >= 1
  /\ disp.filesProcessed >= 2

\* C18 (as claimed): once processMarkdownFiles has rejected, no further render
\* invocation is started.
C18_NoExecAfterReject ==
  [][disp.pc = "threw" => execCalls' = execCalls]_vars

\* C18 (amended): once a job has failed no job is started for any further
\* file; the jobs of the failing window that are still in flight are not
\* cancelled and go on invoking the executable for their remaining formats,
\* also after run() has reported the failure.
C18_NoNewJobAfterReject ==
  [][AnyRejected =>
       /\ started' = started
       /\ \A i \in Jobs :
            execCalls'[i] # execCalls[i] =>
              /\ i \in Range(disp.batch)
              /\ job[i].pc \in {"mkdir", "exec"}
              /\ disp.pc = "threw"
              /\ run.pc = "done"]_vars

C18_Witness ==
  /\ lateExec
  /\ disp.pc = "threw"
  /\ run.failed # <<>>

\* C19: for every file list discovery can produce, no two jobs in flight at
\* the same time write the same output path.
C19_DisjointOutputs ==
  \A i, j \in InFlight :
    i # j => Range(PathsOf(i, M)) \cap Range(PathsOf(j, M)) = {}

\* C12: installAmatl looks the cache up under (tool name, resolved version)
\* before downloading: once a successful call has populated the cache for a
\* resolved version, every later call whose selector resolves to that version
\* (the selector "latest" included) returns from the cache without a download.
Resolved(version) ==
  IF version = "latest" THEN GetLatestAmatlVersion(env.release) ELSE <<version>>

C12_CacheHitAfterInstall ==
  \A a, b \in 1..Len(installLog) :
    ( /\ a < b
      /\ installLog[a].err = <<>>
      /\ installLog[a].downloads = 1
      /\ Resolved(installLog[b].version) = Resolved(installLog[a].version) )
    => /\ installLog[b].err = <<>>
       /\ installLog[b].downloads = 0

\* C13: with version "latest" and a failing metadata query (the request
\* throwing, or the response carrying no release tag) installAmatl resolves
\* the version to the fallback version and goes on to the download without a
\* fatal error.
C13_FallbackOnQueryFailure ==
  \A a \in 1..Len(installLog) :
    ( /\ installLog[a].version = "latest"
      /\ env.release.throws \/ env.release.tag = <<>>
      /\ env.platform \in {"linux", "darwin", "win32"}
      /\ env.arch \in {"x64", "arm64"} )
    => /\ installLog[a].err = <<>>
       /\ installLog[a].downloads = 1
       /\ FallbackVersion \in cache

\* C14 (as claimed): for every format and option combination the argument
\* list contains "--html-layout" iff the format is html or pdf and a layout
\* was configured.
LayoutApplies(i) ==
  /\ Formats(options.format)[job[i].fmt] \in {"html", "pdf"}
  /\ options.layout # <<>>

C14_LayoutFlagIff ==
  \A i \in Jobs :
    job[i].pc = "exec" =>
      (("--html-layout" \in Range(job[i].args)) <=> LayoutApplies(i))

\* C14 (amended): processMarkdownFile itself adds "--html-layout", once,
\* followed by the layout and right after the output path, iff the format is
\* html or pdf and a layout was configured, never for markdown; whenever the
\* additional arguments do not themselves carry the flag, the argument list
\* contains it iff that condition holds.
ExtraArgs ==
  IF options.additionalArgs = <<>> THEN <<>>
  ELSE StringArgv(options.additionalArgs[1])

FlagCount(a) == Cardinality({p \in 1..Len(a) : a[p] = "--html-layout"})

C14_OwnLayoutFlagIff ==
  \A i \in Jobs :
    job[i].pc = "exec" =>
      /\ FlagCount(job[i].args)
           = FlagCount(ExtraArgs) + (IF LayoutApplies(i) THEN 1 ELSE 0)
      /\ LayoutApplies(i) =>
           \E p \in 2..(Len(job[i].args) - 1) :
             /\ job[i].args[p] = "--html-layout"
             /\ job[i].args[p + 1] = options.layout[1]
             /\ job[i].args[p - 1] = PathsOf(i, job[i].fmt)[job[i].fmt]
      /\ "--html-layout" \notin Range(ExtraArgs) =>
           (("--html-layout" \in Range(job[i].args)) <=> LayoutApplies(i))

C14_Witness ==
  \E i \in Jobs :
    /\ job[i].pc = "exec"
    /\ Formats(options.format)[job[i].fmt] = "markdown"
    /\ options.layout # <<>>
    /\ "--html-layout" \notin Range(job[i].args)

\* C20: for a fixed platform and version selector installAmatl returns the
\* same executable path whether it is served from the cache or downloads.
C20_SamePathCachedOrFresh ==
  \A a, b \in 1..Len(installLog) :
    ( /\ installLog[a].version = installLog[b].version
      /\ installLog[a].err = <<>>
      /\ installLog[b].err = <<>> )
    => installLog[a].path = installLog[b].path

====
